---- MODULE Spec2Model ----
(***************************************************************************)
(* redisgo: a process-wide Redis handle (sync.Once singleton), its         *)
(* termination watcher, and the typed wrappers built on Redis.Do.          *)
(*                                                                         *)
(* Two specifications share the state:                                     *)
(*   Spec       the lifecycle: New / GetInstance / Do, Send, Flush and     *)
(*              Hmset at the grain of pool.Get, conn.Do, conn.Close, the   *)
(*              signal channel and the watcher goroutine;                  *)
(*   StoreSpec  the wrappers against a model of the remote store, one      *)
(*              action per wrapper call (Hmset: one per command), started  *)
(*              in the state New leaves behind.                            *)
(*   LiveSpec   Spec with the scheduler's fairness for the watcher.        *)
(***************************************************************************)
EXTENDS Integers, Sequences, FiniteSets, TLC

\* ------------------------------------------------------------- bounds
\* longest text a caller passes to Set as a string
MaxLen == 2
\* largest expiry (seconds) a caller passes
MaxTtl == 2
\* largest integer a caller passes to Set
MaxInt == 1
\* INCR is not issued once the counter has reached this value
MaxCount == 2

\* ------------------------------------------------------------- text
\* Text is a sequence of one-character strings.
Digits == <<"0", "1", "2", "3", "4", "5", "6", "7", "8", "9">>
Quote == "\""
Minus == "-"
\* characters of the strings callers store
Alphabet == {"a", Quote}

IsDigit(c) == \E i \in 1..10 : Digits[i] = c
DigitVal(c) == (CHOOSE i \in 1..10 : Digits[i] = c) - 1

RECURSIVE SeqsUpTo(_, _)
SeqsUpTo(S, n) ==
    IF n = 0 THEN {<<>>}
    ELSE LET shorter == SeqsUpTo(S, n - 1)
         IN  shorter \cup {Append(t, c) : t \in shorter, c \in S}

\* strconv.Itoa / the formatting redigo applies to an integer argument
RECURSIVE ItoaNat(_)
ItoaNat(n) == IF n < 10 THEN <<Digits[n + 1]>>
                        ELSE Append(ItoaNat(n \div 10), Digits[(n % 10) + 1])
Itoa(n) == IF n < 0 THEN <<Minus>> \o ItoaNat(0 - n) ELSE ItoaNat(n)

AllDigits(t) == Len(t) > 0 /\ \A i \in 1..Len(t) : IsDigit(t[i])
RECURSIVE DigitsVal(_)
DigitsVal(t) == IF Len(t) = 0 THEN 0
                ELSE 10 * DigitsVal(SubSeq(t, 1, Len(t) - 1)) + DigitVal(t[Len(t)])

\* strconv.ParseInt(text, 10, 64): optional sign, then digits
ParseIntOk(t) == IF Len(t) > 0 /\ t[1] = Minus THEN AllDigits(Tail(t)) ELSE AllDigits(t)
ParseIntVal(t) == IF t[1] = Minus THEN 0 - DigitsVal(Tail(t)) ELSE DigitsVal(t)

\* ------------------------------------------------------------- values
Nil == "nil"
\* Go values as the wrappers see them: t is the dynamic type
GoVal(t, s, n) == [t |-> t, s |-> s, n |-> n]
StrVal(s) == GoVal("string", s, 0)
IntVal(n) == GoVal("int", <<>>, n)
Int64Val(n) == GoVal("int64", <<>>, n)
Float64Val(n) == GoVal("float64", <<>>, n)
ChanVal == GoVal("chan", <<>>, 0)
NilVal == GoVal("nil", <<>>, 0)

\* ------------------------------------------------------------- encoding/json
\* JSON texts over this character set: numbers and strings (no escapes, no
\* whitespace, no letters of true/false/null, no brackets occur in it).
IsJSONNumber(t) ==
    LET u == IF Len(t) > 0 /\ t[1] = Minus THEN Tail(t) ELSE t
    IN  AllDigits(u) /\ (Len(u) = 1 \/ u[1] # "0")
IsJSONString(t) ==
    /\ Len(t) >= 2
    /\ t[1] = Quote /\ t[Len(t)] = Quote
    /\ \A i \in 2..(Len(t) - 1) : t[i] # Quote
JSONStringBody(t) == SubSeq(t, 2, Len(t) - 1)

\* json.Marshal(v): [b, err]
Marshal(v) ==
    IF v.t = "string" THEN [b |-> <<Quote>> \o v.s \o <<Quote>>, err |-> Nil]
    ELSE IF v.t \in {"int", "int64"} THEN [b |-> Itoa(v.n), err |-> Nil]
    ELSE [b |-> <<>>, err |-> "json: unsupported type"]

\* json.Unmarshal(text, out): out is a pointer to a variable of static type
\* kind holding cur; [out, err]. On an error the target is left as it was.
Unmarshal(t, kind, cur) ==
    IF IsJSONString(t) THEN
        IF kind \in {"string", "any"}
        THEN [out |-> StrVal(JSONStringBody(t)), err |-> Nil]
        ELSE [out |-> cur, err |-> "json: cannot unmarshal string"]
    ELSE IF IsJSONNumber(t) THEN
        IF kind = "int" THEN [out |-> IntVal(ParseIntVal(t)), err |-> Nil]
        ELSE IF kind = "any" THEN [out |-> Float64Val(ParseIntVal(t)), err |-> Nil]
        ELSE [out |-> cur, err |-> "json: cannot unmarshal number"]
    ELSE [out |-> cur, err |-> "json: invalid character"]

\* the zero value of a variable of static type kind
Zero(kind) == IF kind = "string" THEN StrVal(<<>>)
              ELSE IF kind = "int" THEN IntVal(0)
              ELSE NilVal

\* ------------------------------------------------------------- remote store
Keys == {"k"}
FieldOrder == <<"x", "y">>
Fields == {FieldOrder[i] : i \in 1..Len(FieldOrder)}
\* texts a caller puts in a hash field
HVals == {<<"1">>, <<"a">>}
EmptyMap == [f \in {} |-> <<>>]
\* map[string]string values a caller passes to Hmset
Maps == UNION {[S -> HVals] : S \in SUBSET Fields}

\* One key of the store. exp is what TTL reports: -2 absent, -1 no expiry,
\* otherwise the seconds left.
Entry(kind, s, hash, exp) == [kind |-> kind, s |-> s, hash |-> hash, exp |-> exp]
NoEntry == Entry("none", <<>>, EmptyMap, -2)

\* replies of the wire protocol
Reply(t, n, s, arr) == [t |-> t, n |-> n, s |-> s, arr |-> arr]
NilReply == Reply("nil", 0, <<>>, <<>>)
IntReply(n) == Reply("int", n, <<>>, <<>>)
BulkReply(s) == Reply("bulk", 0, s, <<>>)
StatusOK == Reply("status", 0, <<"O", "K">>, <<>>)
ArrayReply(arr) == Reply("array", 0, <<>>, arr)

Cmd(name, n, s, m) == [name |-> name, n |-> n, s |-> s, m |-> m]

\* redis.Args{}.Add(key).AddFlat(val): the fields of val as field, value, ...
RECURSIVE FlatFrom(_, _)
FlatFrom(m, i) ==
    IF i > Len(FieldOrder) THEN <<>>
    ELSE (IF FieldOrder[i] \in DOMAIN m THEN <<FieldOrder[i], m[FieldOrder[i]]>> ELSE <<>>)
         \o FlatFrom(m, i + 1)
AddFlat(m) == FlatFrom(m, 1)

Merge(old, new) ==
    [f \in DOMAIN old \cup DOMAIN new |-> IF f \in DOMAIN new THEN new[f] ELSE old[f]]

ErrWrongType == "WRONGTYPE"
ErrSyntax == "ERR"
Exec(e, r) == [entry |-> e, reply |-> r, err |-> Nil]
Fail(e, err) == [entry |-> e, reply |-> NilReply, err |-> err]

\* What the remote store does with one command on a key: [entry, reply, err].
RedisExec(e, c) ==
    CASE c.name = "SETEX" ->
            IF c.n <= 0 THEN Fail(e, ErrSyntax)
            ELSE Exec(Entry("string", c.s, EmptyMap, c.n), StatusOK)
      [] c.name = "SET" -> Exec(Entry("string", c.s, EmptyMap, -1), StatusOK)
      [] c.name = "GET" ->
            IF e.kind = "none" THEN Exec(e, NilReply)
            ELSE IF e.kind = "string" THEN Exec(e, BulkReply(e.s))
            ELSE Fail(e, ErrWrongType)
      [] c.name = "DEL" -> Exec(NoEntry, IntReply(IF e.kind = "none" THEN 0 ELSE 1))
      [] c.name = "EXISTS" -> Exec(e, IntReply(IF e.kind = "none" THEN 0 ELSE 1))
      [] c.name = "TTL" -> Exec(e, IntReply(e.exp))
      [] c.name = "EXPIRE" ->
            IF e.kind = "none" THEN Exec(e, IntReply(0))
            ELSE IF c.n <= 0 THEN Exec(NoEntry, IntReply(1))
            ELSE Exec([e EXCEPT !.exp = c.n], IntReply(1))
      [] c.name = "INCR" ->
            IF e.kind = "none" THEN Exec(Entry("string", Itoa(1), EmptyMap, -1), IntReply(1))
            ELSE IF e.kind # "string" THEN Fail(e, ErrWrongType)
            ELSE IF ~ParseIntOk(e.s) THEN Fail(e, ErrSyntax)
            ELSE Exec([e EXCEPT !.s = Itoa(ParseIntVal(e.s) + 1)],
                      IntReply(ParseIntVal(e.s) + 1))
      [] c.name = "HMSET" ->
            IF DOMAIN c.m = {} THEN Fail(e, ErrSyntax)
            ELSE IF e.kind = "string" THEN Fail(e, ErrWrongType)
            ELSE IF e.kind = "none" THEN Exec(Entry("hash", <<>>, c.m, -1), StatusOK)
            ELSE Exec([e EXCEPT !.hash = Merge(e.hash, c.m)], StatusOK)
      [] c.name = "HGETALL" ->
            IF e.kind = "none" THEN Exec(e, ArrayReply(<<>>))
            ELSE IF e.kind = "hash" THEN Exec(e, ArrayReply(AddFlat(e.hash)))
            ELSE Fail(e, ErrWrongType)
      [] OTHER -> Fail(e, ErrSyntax)

\* One second passes on a key: the expiry counts down and the key goes at 0.
Age(e) == IF e.exp <= 0 THEN e
          ELSE IF e.exp = 1 THEN NoEntry
          ELSE [e EXCEPT !.exp = e.exp - 1]

\* ------------------------------------------------------------- redigo reply helpers
ErrNil == "redigo: nil returned"
ErrType == "redigo: unexpected type"
ErrConv == "strconv: invalid syntax"

\* redis.String(reply, err): [v, err]
RedisString(r, err) ==
    IF err # Nil THEN [v |-> <<>>, err |-> err]
    ELSE IF r.t \in {"bulk", "status"} THEN [v |-> r.s, err |-> Nil]
    ELSE IF r.t = "nil" THEN [v |-> <<>>, err |-> ErrNil]
    ELSE [v |-> <<>>, err |-> ErrType]

\* redis.Int / redis.Int64 (reply, err): [v, err]
RedisInt(r, err) ==
    IF err # Nil THEN [v |-> 0, err |-> err]
    ELSE IF r.t = "int" THEN [v |-> r.n, err |-> Nil]
    ELSE IF r.t = "bulk" THEN
        IF ParseIntOk(r.s) THEN [v |-> ParseIntVal(r.s), err |-> Nil]
        ELSE [v |-> 0, err |-> ErrConv]
    ELSE IF r.t = "nil" THEN [v |-> 0, err |-> ErrNil]
    ELSE [v |-> 0, err |-> ErrType]

\* redis.Bool(reply, err): [v, err]
RedisBool(r, err) ==
    IF err # Nil THEN [v |-> FALSE, err |-> err]
    ELSE IF r.t = "int" THEN [v |-> r.n # 0, err |-> Nil]
    ELSE IF r.t = "nil" THEN [v |-> FALSE, err |-> ErrNil]
    ELSE [v |-> FALSE, err |-> ErrType]

\* redis.Values(reply, err): [v, err]
RedisValues(r, err) ==
    IF err # Nil THEN [v |-> <<>>, err |-> err]
    ELSE IF r.t = "array" THEN [v |-> r.arr, err |-> Nil]
    ELSE IF r.t = "nil" THEN [v |-> <<>>, err |-> ErrNil]
    ELSE [v |-> <<>>, err |-> ErrType]

\* The caller's struct for Hmget: fields x and y, all of type kind ("string"
\* or "int"). redis.ScanStruct(src, dest) assigns the pairs of src in order
\* and stops at the first value it cannot convert: [out, err].
ZeroStruct(kind) == [f \in Fields |-> Zero(kind)]
RECURSIVE ScanFrom(_, _, _, _)
ScanFrom(src, i, kind, out) ==
    IF i > Len(src) THEN [out |-> out, err |-> Nil]
    ELSE LET f == src[i]
             t == src[i + 1]
         IN  IF f \notin Fields THEN ScanFrom(src, i + 2, kind, out)
             ELSE IF kind = "string"
                  THEN ScanFrom(src, i + 2, kind, [out EXCEPT ![f] = StrVal(t)])
             ELSE IF ParseIntOk(t)
                  THEN ScanFrom(src, i + 2, kind, [out EXCEPT ![f] = IntVal(ParseIntVal(t))])
             ELSE [out |-> out, err |-> "redigo: ScanStruct: cannot convert"]
ScanStruct(src, kind, out) ==
    IF Len(src) % 2 # 0
    THEN [out |-> out, err |-> "redigo: ScanStruct: odd number of values"]
    ELSE ScanFrom(src, 1, kind, out)

\* ------------------------------------------------------------- state
Callers == {"c1", "c2"}
\* the arguments of New: ip, port, password, db
CfgA == [ip |-> "localhost", port |-> 6379, password |-> "pw", db |-> 0]
CfgB == [ip |-> "localhost", port |-> 6379, password |-> "pw", db |-> 1]
Configs == {CfgA, CfgB}
\* the signals an operating system delivers; SIGKILL cannot be caught, so
\* signal.Notify for it has no effect
Signals == {"SIGINT", "SIGTERM", "SIGKILL"}
Notified == {"SIGINT", "SIGTERM"}
\* make(chan os.Signal, 1)
ChanCap == 1
NoHandle == 0

VARIABLES
    pc,             \* where each caller is in the call it is making
    arg,            \* the arguments of that call
    h,              \* the *Redis each caller got from New or GetInstance
    conn,           \* the connection each caller's Do holds
    once,           \* sync.Once: done flag and the holder of its mutex
    redisInstance,  \* the package variable: NoHandle or an index of handles
    handles,        \* every Redis value ever created: [pool]
    pools,          \* every redis.Pool ever created: [cfg, closed, active]
    watchers,       \* every watcher goroutine ever started: [pc, ch, r]
    proc,           \* running, exited (os.Exit), killed (signal), panicked
    store,          \* the remote store: an entry per key
    lastWrite,      \* per key, the last command that changed it at the store
    ret,            \* the call that returned in the last step, with what it returned
    hist            \* what has happened: New begun / returned, bodies run

vars == <<pc, arg, h, conn, once, redisInstance, handles, pools, watchers,
          proc, store, lastWrite, ret, hist>>

storeVars == <<store, lastWrite>>

Arg(op, cfg, key, val, expire, kind, step) ==
    [op |-> op, cfg |-> cfg, key |-> key, val |-> val, expire |-> expire,
     kind |-> kind, step |-> step, err |-> Nil, cmds |-> <<>>]
NoArg == Arg("none", CfgA, "k", NilVal, 0, "any", 0)

\* A returned call: err and val are what it returned, out what it left in
\* the caller's output; kind is the type of that output; saw is
\* what the call found (the last write of its key), cmds the r.Do calls it
\* made, fetchErr and decErr the errors of its fetch and of its decoding.
Ret(op, err, val, out, saw, cmds, fetchErr, decErr) ==
    [op |-> op, err |-> err, val |-> val, out |-> out, saw |-> saw,
     cmds |-> cmds, fetchErr |-> fetchErr, decErr |-> decErr, kind |-> "any"]
NoRet == Ret("none", Nil, 0, NilVal, 0, <<>>, Nil, Nil)

\* The last command that changed a key at the store, the wrapper it came
\* from and its arguments. For Hmset: by is the caller, whole says that
\* nothing else changed the key since its HMSET, returned that the call has
\* returned nil.
Write(op, cmd, by, val, m, expire, whole, returned) ==
    [op |-> op, cmd |-> cmd, by |-> by, val |-> val, m |-> m, expire |-> expire,
     whole |-> whole, returned |-> returned]
NoWrite == Write("none", "none", "-", NilVal, EmptyMap, 0, FALSE, FALSE)
Expired == Write("none", "expired", "-", NilVal, EmptyMap, 0, FALSE, FALSE)

Init ==
    /\ pc = [p \in Callers |-> "idle"]
    /\ arg = [p \in Callers |-> NoArg]
    /\ h = [p \in Callers |-> NoHandle]
    /\ conn = [p \in Callers |-> "none"]
    /\ once = [done |-> FALSE, m |-> "free"]
    /\ redisInstance = NoHandle
    /\ handles = <<>>
    /\ pools = <<>>
    /\ watchers = <<>>
    /\ proc = "running"
    /\ store = [k \in Keys |-> NoEntry]
    /\ lastWrite = [k \in Keys |-> NoWrite]
    /\ ret = NoRet
    /\ hist = [newStarted |-> FALSE, newReturned |-> NoHandle, ran |-> <<>>]

\* ------------------------------------------------------------- New
\* New(ip, port, password, db) is called
New_Call(p, cfg) ==
    /\ proc = "running" /\ pc[p] = "idle"
    /\ pc' = [pc EXCEPT ![p] = "once_fast"]
    /\ arg' = [arg EXCEPT ![p] = Arg("New", cfg, "k", NilVal, 0, "any", 0)]
    /\ hist' = [hist EXCEPT !.newStarted = TRUE]
    /\ ret' = NoRet
    /\ UNCHANGED <<h, conn, once, redisInstance, handles, pools, watchers, proc,
                   store, lastWrite>>

\* once.Do, fast path: the atomic load of done
Once_Fast(p) ==
    /\ proc = "running" /\ pc[p] = "once_fast"
    /\ pc' = [pc EXCEPT ![p] = IF once.done THEN "new_return" ELSE "once_lock"]
    /\ ret' = NoRet
    /\ UNCHANGED <<arg, h, conn, once, redisInstance, handles, pools, watchers,
                   proc, store, lastWrite, hist>>

\* once.Do, slow path: m.Lock() blocks while another caller holds the mutex
Once_Lock_NoMutex(p) ==
    /\ proc = "running" /\ pc[p] = "once_lock"
    /\ once' = [once EXCEPT !.m = p]
    /\ pc' = [pc EXCEPT ![p] = "once_slow"]
    /\ ret' = NoRet
    /\ UNCHANGED <<arg, h, conn, redisInstance, handles, pools, watchers, proc,
                   store, lastWrite, hist>>
Once_Lock(p) ==
    /\ proc = "running" /\ pc[p] = "once_lock"
    /\ once.m = "free"
    /\ once' = [once EXCEPT !.m = p]
    /\ pc' = [pc EXCEPT ![p] = "once_slow"]
    /\ ret' = NoRet
    /\ UNCHANGED <<arg, h, conn, redisInstance, handles, pools, watchers, proc,
                   store, lastWrite, hist>>

\* once.Do, slow path: done is read again under the mutex
Once_Slow(p) ==
    /\ proc = "running" /\ pc[p] = "once_slow"
    /\ pc' = [pc EXCEPT ![p] = IF once.done THEN "once_unlock" ELSE "new_body"]
    /\ ret' = NoRet
    /\ UNCHANGED <<arg, h, conn, once, redisInstance, handles, pools, watchers,
                   proc, store, lastWrite, hist>>

\* the body: the pool (its Dial closes over the arguments of this call) and
\* the Redis that holds it
New_Body(p) ==
    /\ proc = "running" /\ pc[p] = "new_body"
    /\ pools' = Append(pools, [cfg |-> arg[p].cfg, closed |-> FALSE, active |-> 0])
    /\ handles' = Append(handles, [pool |-> Len(pools) + 1])
    /\ redisInstance' = Len(handles) + 1
    /\ hist' = [hist EXCEPT !.ran = Append(@, [by |-> p, cfg |-> arg[p].cfg])]
    /\ pc' = [pc EXCEPT ![p] = "close_pool"]
    /\ ret' = NoRet
    /\ UNCHANGED <<arg, h, conn, once, watchers, proc, store, lastWrite>>

\* redisInstance.closePool(): the channel, signal.Notify, and the goroutine
closePool(p) ==
    /\ proc = "running" /\ pc[p] = "close_pool"
    /\ watchers' = Append(watchers, [pc |-> "recv", ch |-> <<>>, r |-> redisInstance])
    /\ pc' = [pc EXCEPT ![p] = "once_done"]
    /\ ret' = NoRet
    /\ UNCHANGED <<arg, h, conn, once, redisInstance, handles, pools, proc, store,
                   lastWrite, hist>>

\* once.Do: the deferred store of done, after the body
Once_Done(p) ==
    /\ proc = "running" /\ pc[p] = "once_done"
    /\ once' = [once EXCEPT !.done = TRUE]
    /\ pc' = [pc EXCEPT ![p] = "once_unlock"]
    /\ ret' = NoRet
    /\ UNCHANGED <<arg, h, conn, redisInstance, handles, pools, watchers, proc,
                   store, lastWrite, hist>>

\* once.Do: the deferred m.Unlock()
Once_Unlock(p) ==
    /\ proc = "running" /\ pc[p] = "once_unlock"
    /\ once' = [once EXCEPT !.m = IF @ = p THEN "free" ELSE @]
    /\ pc' = [pc EXCEPT ![p] = "new_return"]
    /\ ret' = NoRet
    /\ UNCHANGED <<arg, h, conn, redisInstance, handles, pools, watchers, proc,
                   store, lastWrite, hist>>

\* return redisInstance
New_Return(p) ==
    /\ proc = "running" /\ pc[p] = "new_return"
    /\ h' = [h EXCEPT ![p] = redisInstance]
    /\ hist' = [hist EXCEPT !.newReturned = redisInstance]
    /\ pc' = [pc EXCEPT ![p] = "idle"]
    /\ arg' = [arg EXCEPT ![p] = NoArg]
    /\ ret' = NoRet
    /\ UNCHANGED <<conn, once, redisInstance, handles, pools, watchers, proc,
                   store, lastWrite>>

\* ------------------------------------------------------------- GetInstance
\* what GetInstance does with the value it reads: [val, err]
GetInstance_NoCheck(inst) == [val |-> inst, err |-> Nil]
GetInstanceResult(inst) ==
    IF inst = NoHandle THEN [val |-> NoHandle, err |-> "panic"]
    ELSE [val |-> inst, err |-> Nil]

\* an unrecovered panic ends the process
GetInstance(p) ==
    /\ proc = "running" /\ pc[p] = "idle"
    /\ LET r == GetInstanceResult(redisInstance)
       IN  /\ ret' = Ret("GetInstance", r.err, r.val, NilVal,
                         [newStarted |-> hist.newStarted, newReturned |-> hist.newReturned],
                         <<>>, Nil, Nil)
           /\ h' = [h EXCEPT ![p] = IF r.err = Nil THEN r.val ELSE @]
           /\ proc' = IF r.err = Nil THEN proc ELSE "panicked"
    /\ UNCHANGED <<pc, arg, conn, once, redisInstance, handles, pools, watchers,
                   store, lastWrite, hist>>

\* ------------------------------------------------------------- Do, Send, Flush
\* The calls that go through the pool, at the grain of pool.Get(), the use of
\* the connection, and the deferred conn.Close(). Hmset is two such rounds.
PoolOps == {"Do", "Send", "Flush", "Hmset"}
PoolOf(p) == handles[h[p]].pool

\* a method of the handle is called (expire is an argument of Hmset alone)
Op_Call(p, op, expire) ==
    /\ proc = "running" /\ pc[p] = "idle" /\ h[p] # NoHandle
    /\ op # "Hmset" => expire = 0
    /\ arg' = [arg EXCEPT ![p] = Arg(op, CfgA, "k", NilVal, expire, "any", 1)]
    /\ pc' = [pc EXCEPT ![p] = "pool_get"]
    /\ ret' = NoRet
    /\ UNCHANGED <<h, conn, once, redisInstance, handles, pools, watchers, proc,
                   store, lastWrite, hist>>

\* conn := r.pool.Get(): a live connection, or one that only carries the
\* error of a closed pool or of a failed dial
Pool_Get(p) ==
    /\ proc = "running" /\ pc[p] = "pool_get"
    /\ \E dialed \in BOOLEAN :
        IF pools[PoolOf(p)].closed \/ ~dialed
        THEN /\ conn' = [conn EXCEPT ![p] = "error"]
             /\ UNCHANGED pools
        ELSE /\ conn' = [conn EXCEPT ![p] = "live"]
             /\ pools' = [pools EXCEPT ![PoolOf(p)].active = @ + 1]
    /\ pc' = [pc EXCEPT ![p] = "conn_use"]
    /\ ret' = NoRet
    /\ UNCHANGED <<arg, h, once, redisInstance, handles, watchers, proc, store,
                   lastWrite, hist>>

\* the command of this round of the call
CmdName(a) == IF a.op = "Hmset" THEN (IF a.step = 1 THEN "HMSET" ELSE "EXPIRE")
              ELSE a.op

\* conn.Do / conn.Send / conn.Flush: the remote store or the transport may
\* fail it; an error connection fails it without issuing anything
Conn_Use(p) ==
    /\ proc = "running" /\ pc[p] = "conn_use"
    /\ \E ok \in BOOLEAN :
        arg' = [arg EXCEPT ![p].err = IF conn[p] = "live" /\ ok THEN Nil ELSE "error",
                           ![p].cmds = IF conn[p] = "live"
                                       THEN Append(@, CmdName(arg[p])) ELSE @]
    /\ pc' = [pc EXCEPT ![p] = "conn_close"]
    /\ ret' = NoRet
    /\ UNCHANGED <<h, conn, once, redisInstance, handles, pools, watchers, proc,
                   store, lastWrite, hist>>

\* the pool after the deferred conn.Close() of caller p
Release_OnSuccessOnly(p) ==
    IF conn[p] = "live" /\ arg[p].err = Nil
    THEN [pools EXCEPT ![PoolOf(p)].active = @ - 1] ELSE pools
Release(p) ==
    IF conn[p] = "live" THEN [pools EXCEPT ![PoolOf(p)].active = @ - 1] ELSE pools

\* defer conn.Close() runs and the round ends: Hmset goes on to EXPIRE when
\* HMSET succeeded and expire > 0, every other call returns
Conn_Close(p) ==
    /\ proc = "running" /\ pc[p] = "conn_close"
    /\ pools' = Release(p)
    /\ conn' = [conn EXCEPT ![p] = "none"]
    /\ IF arg[p].op = "Hmset" /\ arg[p].step = 1 /\ arg[p].err = Nil /\ arg[p].expire > 0
       THEN /\ arg' = [arg EXCEPT ![p].step = 2]
            /\ pc' = [pc EXCEPT ![p] = "pool_get"]
            /\ ret' = NoRet
       ELSE /\ pc' = [pc EXCEPT ![p] = "idle"]
            /\ arg' = [arg EXCEPT ![p] = NoArg]
            /\ ret' = NoRet
    /\ UNCHANGED <<h, once, redisInstance, handles, watchers, proc,
                   store, lastWrite, hist>>

\* ------------------------------------------------------------- signals, watcher
\* The operating system delivers a signal. SIGKILL, and any signal while no
\* Notify is in effect, ends the process; otherwise the signal is sent to
\* every channel without blocking and dropped where the buffer is full.
Signal(sig) ==
    /\ proc = "running"
    /\ IF sig \notin Notified \/ Len(watchers) = 0
       THEN /\ proc' = "killed"
            /\ UNCHANGED watchers
       ELSE /\ watchers' = [i \in 1..Len(watchers) |->
                              IF Len(watchers[i].ch) < ChanCap
                              THEN [watchers[i] EXCEPT !.ch = Append(@, sig)]
                              ELSE watchers[i]]
            /\ UNCHANGED proc
    /\ ret' = NoRet
    /\ UNCHANGED <<pc, arg, h, conn, once, redisInstance, handles, pools, store,
                   lastWrite, hist>>

\* <-c
Watcher_Recv_SkipClose(i) ==
    /\ proc = "running" /\ i \in 1..Len(watchers)
    /\ watchers[i].pc = "recv" /\ Len(watchers[i].ch) > 0
    /\ watchers' = [watchers EXCEPT ![i].pc = "exit", ![i].ch = Tail(@)]
    /\ ret' = NoRet
    /\ UNCHANGED <<pc, arg, h, conn, once, redisInstance, handles, pools, proc,
                   store, lastWrite, hist>>
Watcher_Recv(i) ==
    /\ proc = "running" /\ i \in 1..Len(watchers)
    /\ watchers[i].pc = "recv" /\ Len(watchers[i].ch) > 0
    /\ watchers' = [watchers EXCEPT ![i].pc = "close", ![i].ch = Tail(@)]
    /\ ret' = NoRet
    /\ UNCHANGED <<pc, arg, h, conn, once, redisInstance, handles, pools, proc,
                   store, lastWrite, hist>>

\* r.pool.Close(): later Get calls fail; connections in use stay with their users
Watcher_Close(i) ==
    /\ proc = "running" /\ i \in 1..Len(watchers)
    /\ watchers[i].pc = "close"
    /\ pools' = [pools EXCEPT ![handles[watchers[i].r].pool].closed = TRUE]
    /\ watchers' = [watchers EXCEPT ![i].pc = "exit"]
    /\ ret' = NoRet
    /\ UNCHANGED <<pc, arg, h, conn, once, redisInstance, handles, proc, store,
                   lastWrite, hist>>

\* os.Exit(0): every goroutine stops where it is
Watcher_Exit(i) ==
    /\ proc = "running" /\ i \in 1..Len(watchers)
    /\ watchers[i].pc = "exit"
    /\ proc' = "exited"
    /\ watchers' = [watchers EXCEPT ![i].pc = "done"]
    /\ ret' = NoRet
    /\ UNCHANGED <<pc, arg, h, conn, once, redisInstance, handles, pools, store,
                   lastWrite, hist>>

WatcherIds == 1..Cardinality(Callers)
Watcher(i) == Watcher_Recv(i) \/ Watcher_Close(i) \/ Watcher_Exit(i)

\* ------------------------------------------------------------- lifecycle
Next ==
    \/ \E p \in Callers, cfg \in Configs : New_Call(p, cfg)
    \/ \E p \in Callers : Once_Fast(p)
    \/ \E p \in Callers : Once_Lock(p)
    \/ \E p \in Callers : Once_Slow(p)
    \/ \E p \in Callers : New_Body(p)
    \/ \E p \in Callers : closePool(p)
    \/ \E p \in Callers : Once_Done(p)
    \/ \E p \in Callers : Once_Unlock(p)
    \/ \E p \in Callers : New_Return(p)
    \/ \E p \in Callers : GetInstance(p)
    \/ \E p \in Callers, op \in PoolOps, expire \in 0..1 : Op_Call(p, op, expire)
    \/ \E p \in Callers : Pool_Get(p)
    \/ \E p \in Callers : Conn_Use(p)
    \/ \E p \in Callers : Conn_Close(p)
    \/ \E sig \in Signals : Signal(sig)
    \/ \E i \in WatcherIds : Watcher_Recv(i)
    \/ \E i \in WatcherIds : Watcher_Close(i)
    \/ \E i \in WatcherIds : Watcher_Exit(i)

Spec == Init /\ [][Next]_vars

\* The Go scheduler runs a runnable goroutine eventually: the watcher takes
\* each of its steps once it can.
LiveSpec == Spec /\ \A i \in WatcherIds : WF_vars(Watcher(i))

\* ------------------------------------------------------------- lifecycle claims
InFlight(p) == pc[p] \in {"pool_get", "conn_use", "conn_close"}
Holders(i) == {p \in Callers : conn[p] = "live" /\ PoolOf(p) = i}

\* C1: however many callers run New at once, and with whatever arguments,
\* the body runs once: one pool, one Redis, one watcher are ever created,
\* every New returns that Redis, and its pool keeps the arguments of the
\* call whose body ran.
C1_InitOnce ==
    /\ Len(pools) <= 1 /\ Len(handles) <= 1 /\ Len(watchers) <= 1
    /\ Len(hist.ran) <= 1
    /\ \A p \in Callers :
        /\ pc[p] = "new_return" =>
            /\ redisInstance = 1
            /\ Len(pools) = 1 /\ Len(handles) = 1 /\ Len(watchers) = 1
            /\ pools[handles[redisInstance].pool].cfg = hist.ran[1].cfg
        /\ h[p] # NoHandle => h[p] = 1
    /\ hist.newReturned # NoHandle => hist.newReturned = 1

\* a New with other arguments, overlapping the call whose body ran, is
\* about to return the handle of that call
C1_Witness ==
    \E p, q \in Callers :
        /\ p # q /\ Len(hist.ran) = 1 /\ hist.ran[1].by = q
        /\ pc[q] = "new_return" /\ pc[p] = "new_return"
        /\ arg[p].cfg # hist.ran[1].cfg
        /\ redisInstance = 1 /\ pools[1].cfg = hist.ran[1].cfg

\* C2: GetInstance with no New begun panics and yields no handle; once a New
\* has returned, GetInstance returns the handle New returned.
C2_GetInstance ==
    ret.op = "GetInstance" =>
        /\ ~ret.saw.newStarted => (ret.err = "panic" /\ ret.val = NoHandle /\ proc = "panicked")
        /\ ret.saw.newReturned # NoHandle => (ret.err = Nil /\ ret.val = ret.saw.newReturned)

\* GetInstance by a caller that did not run the body, after New returned
C2_Witness ==
    /\ ret.op = "GetInstance" /\ ret.err = Nil
    /\ ret.saw.newReturned # NoHandle /\ ret.val = ret.saw.newReturned
    /\ Len(hist.ran) = 1
    /\ \E p \in Callers : p # hist.ran[1].by /\ h[p] = ret.val /\ pc[p] = "idle"
    /\ h[hist.ran[1].by] = NoHandle

\* C8: a connection is held only inside a call, one per command, and is
\* released on success and on error alike: each pool's count of borrowed
\* connections is the number of calls holding one, so it is 0 when no call
\* is in flight and never exceeds the calls in flight.
C8_ScopedConn ==
    /\ \A p \in Callers : conn[p] # "none" => pc[p] \in {"conn_use", "conn_close"}
    /\ \A i \in 1..Len(pools) :
        /\ pools[i].active = Cardinality(Holders(i))
        /\ pools[i].active <= Cardinality({p \in Callers : InFlight(p)})
    /\ (\A p \in Callers : ~InFlight(p)) => \A i \in 1..Len(pools) : pools[i].active = 0
    /\ \A p \in Callers : pc[p] = "conn_close" =>
         Len(arg[p].cmds) = (IF conn[p] = "live" THEN arg[p].step ELSE arg[p].step - 1)

\* Hmset between its two commands: the first connection is back in the pool
C8_Witness ==
    \E p \in Callers :
        /\ arg[p].op = "Hmset" /\ arg[p].step = 2 /\ pc[p] = "pool_get"
        /\ conn[p] = "none" /\ pools[PoolOf(p)].active = 0
        /\ \E q \in Callers : q # p /\ pc[q] = "idle" /\ h[q] # NoHandle

\* C9: the process exits through the watcher only with the pool closed, and
\* a signal waiting in the watcher's channel leads to that exit (unless
\* SIGKILL ends the process first); calls in flight are left where they are.
C9_CloseThenExit ==
    /\ [](proc = "exited" =>
            \E i \in 1..Len(watchers) :
                watchers[i].pc = "done" /\ pools[handles[watchers[i].r].pool].closed)
    /\ \A i \in WatcherIds :
          (proc = "running" /\ i <= Len(watchers) /\ Len(watchers[i].ch) > 0)
            ~> (proc = "killed"
                \/ (proc = "exited" /\ i <= Len(watchers)
                    /\ pools[handles[watchers[i].r].pool].closed))

\* the watcher has exited the process while a call holds a connection
C9_Witness ==
    /\ proc = "exited" /\ Len(watchers) = 1 /\ watchers[1].pc = "done"
    /\ pools[1].closed
    /\ \E p \in Callers : pc[p] = "conn_use" /\ conn[p] = "live"

\* ============================================================= the wrappers
\* StoreSpec starts where New has returned to every caller: one pool, one
\* Redis, its watcher waiting for a signal, an empty store.
StoreInit ==
    /\ pc = [p \in Callers |-> "idle"]
    /\ arg = [p \in Callers |-> NoArg]
    /\ h = [p \in Callers |-> 1]
    /\ conn = [p \in Callers |-> "none"]
    /\ once = [done |-> TRUE, m |-> "free"]
    /\ redisInstance = 1
    /\ handles = <<[pool |-> 1]>>
    /\ pools = <<[cfg |-> CfgA, closed |-> FALSE, active |-> 0]>>
    /\ watchers = <<[pc |-> "recv", ch |-> <<>>, r |-> 1]>>
    /\ proc = "running"
    /\ store = [k \in Keys |-> NoEntry]
    /\ lastWrite = [k \in Keys |-> NoWrite]
    /\ ret = NoRet
    /\ hist = [newStarted |-> TRUE, newReturned |-> 1,
               ran |-> <<[by |-> "c1", cfg |-> CfgA]>>]

\* what the transport does to a command: carries it, or fails
Nets == {"ok", "io"}
ErrPoolClosed == "redigo: get on closed pool"
ErrIO == "io: connection reset"

\* r.Do(commandName, args...): pool.Get, conn.Do, the deferred conn.Close, as
\* one step. [entry, reply, err] with the entry of the key afterwards.
Do(p, key, c, net) ==
    IF pools[PoolOf(p)].closed
    THEN [entry |-> store[key], reply |-> NilReply, err |-> ErrPoolClosed]
    ELSE IF net = "io"
    THEN [entry |-> store[key], reply |-> NilReply, err |-> ErrIO]
    ELSE RedisExec(store[key], c)

Called(c, d) == [name |-> c.name, err |-> d.err]
\* A call's result stays in ret for one step of the callers: the caller takes
\* it (Taken) before the next call or tick. Taking it changes nothing else,
\* so no interleaving of the calls is lost.
CanCall(p) == proc = "running" /\ ret = NoRet /\ pc[p] = "idle" /\ h[p] # NoHandle
CallFrame == UNCHANGED <<pc, arg, h, conn, once, redisInstance, handles, pools,
                         watchers, proc, hist>>

\* --- GetString, GetInt
GetString(p, key, net) ==
    /\ CanCall(p)
    /\ LET c == Cmd("GET", 0, <<>>, EmptyMap)
           d == Do(p, key, c, net)
           g == RedisString(d.reply, d.err)
       IN  ret' = Ret("GetString", g.err, g.v, NilVal, lastWrite[key],
                      <<Called(c, d)>>, g.err, Nil)
    /\ UNCHANGED storeVars /\ CallFrame

GetInt(p, key, net) ==
    /\ CanCall(p)
    /\ LET c == Cmd("GET", 0, <<>>, EmptyMap)
           d == Do(p, key, c, net)
           g == RedisInt(d.reply, d.err)
       IN  ret' = Ret("GetInt", g.err, g.v, NilVal, lastWrite[key],
                      <<Called(c, d)>>, g.err, Nil)
    /\ UNCHANGED storeVars /\ CallFrame

\* --- Get: the error Get returns, given those of GetString and json.Unmarshal
GetErr(fetchErr, decErr) == IF fetchErr # Nil THEN fetchErr ELSE Nil

\* Get(key, &out) with out a zero variable of type kind
Get(p, key, kind, net) ==
    /\ CanCall(p)
    /\ LET c == Cmd("GET", 0, <<>>, EmptyMap)
           d == Do(p, key, c, net)
           g == RedisString(d.reply, d.err)
           u == IF g.err # Nil THEN [out |-> Zero(kind), err |-> Nil]
                ELSE Unmarshal(g.v, kind, Zero(kind))
       IN  ret' = [Ret("Get", GetErr(g.err, u.err), 0, u.out, lastWrite[key],
                       <<Called(c, d)>>, g.err, u.err) EXCEPT !.kind = kind]
    /\ UNCHANGED storeVars /\ CallFrame

\* --- Set: the command of each branch of the type switch
SetCmd_PlainSetForInt(val, expire) ==
    IF val.t = "string" THEN Cmd("SETEX", expire, val.s, EmptyMap)
    ELSE IF val.t = "int" THEN Cmd("SET", 0, Itoa(val.n), EmptyMap)
    ELSE Cmd("SETEX", expire, Marshal(val).b, EmptyMap)
SetCmd(val, expire) ==
    IF val.t = "string" THEN Cmd("SETEX", expire, val.s, EmptyMap)
    ELSE IF val.t = "int" THEN Cmd("SETEX", expire, Itoa(val.n), EmptyMap)
    ELSE Cmd("SETEX", expire, Marshal(val).b, EmptyMap)

\* the named result err of Set: the string and int branches assign it; the
\* default branch declares its own err with :=, so the result stays nil
SetErr(val, doErr) == IF val.t \in {"string", "int"} THEN doErr ELSE Nil

Set(p, key, val, expire, net) ==
    /\ CanCall(p)
    /\ LET c == SetCmd(val, expire)
           d == Do(p, key, c, net)
       IN  /\ store' = [store EXCEPT ![key] = d.entry]
           /\ lastWrite' = IF d.err = Nil
                           THEN [lastWrite EXCEPT ![key] =
                                   Write("Set", c.name, "-", val, EmptyMap, expire, TRUE, TRUE)]
                           ELSE lastWrite
           /\ ret' = Ret("Set", SetErr(val, d.err), 0, NilVal, NoWrite,
                         <<Called(c, d)>>, Nil, Nil)
    /\ CallFrame

\* --- Exists, Del, Ttl, Expire, Incr: one command each
Exists(p, key, net) ==
    /\ CanCall(p)
    /\ LET c == Cmd("EXISTS", 0, <<>>, EmptyMap)
           d == Do(p, key, c, net)
           g == RedisBool(d.reply, d.err)
       IN  ret' = Ret("Exists", g.err, g.v, NilVal, NoWrite, <<Called(c, d)>>, Nil, Nil)
    /\ UNCHANGED storeVars /\ CallFrame

Del(p, key, net) ==
    /\ CanCall(p)
    /\ LET c == Cmd("DEL", 0, <<>>, EmptyMap)
           d == Do(p, key, c, net)
       IN  /\ store' = [store EXCEPT ![key] = d.entry]
           /\ lastWrite' = IF d.err = Nil /\ d.reply.n = 1
                           THEN [lastWrite EXCEPT ![key] =
                                   Write("Del", c.name, "-", NilVal, EmptyMap, 0, TRUE, TRUE)]
                           ELSE lastWrite
           /\ ret' = Ret("Del", d.err, 0, NilVal, NoWrite, <<Called(c, d)>>, Nil, Nil)
    /\ CallFrame

Ttl(p, key, net) ==
    /\ CanCall(p)
    /\ LET c == Cmd("TTL", 0, <<>>, EmptyMap)
           d == Do(p, key, c, net)
           g == RedisInt(d.reply, d.err)
       IN  ret' = Ret("Ttl", g.err, g.v, NilVal, lastWrite[key],
                      <<Called(c, d)>>, Nil, Nil)
    /\ UNCHANGED storeVars /\ CallFrame

Expire(p, key, expire, net) ==
    /\ CanCall(p)
    /\ LET c == Cmd("EXPIRE", expire, <<>>, EmptyMap)
           d == Do(p, key, c, net)
           g == RedisBool(d.reply, d.err)
       IN  /\ store' = [store EXCEPT ![key] = d.entry]
           /\ lastWrite' = IF d.err = Nil /\ d.reply.n = 1
                           THEN [lastWrite EXCEPT ![key] =
                                   Write("Expire", c.name, "-", NilVal, EmptyMap, expire, TRUE, TRUE)]
                           ELSE lastWrite
           /\ ret' = Ret("Expire", g.err, 0, NilVal, NoWrite, <<Called(c, d)>>, Nil, Nil)
    /\ CallFrame

\* (not issued once the counter has reached MaxCount)
Incr(p, key, net) ==
    /\ CanCall(p)
    /\ ~(store[key].kind = "string" /\ ParseIntOk(store[key].s)
           /\ ParseIntVal(store[key].s) >= MaxCount)
    /\ LET c == Cmd("INCR", 0, <<>>, EmptyMap)
           d == Do(p, key, c, net)
           g == RedisInt(d.reply, d.err)
       IN  /\ store' = [store EXCEPT ![key] = d.entry]
           /\ lastWrite' = IF d.err = Nil
                           THEN [lastWrite EXCEPT ![key] =
                                   Write("Incr", c.name, "-", NilVal, EmptyMap, 0, TRUE, TRUE)]
                           ELSE lastWrite
           /\ ret' = Ret("Incr", g.err, g.v, NilVal, NoWrite, <<Called(c, d)>>, Nil, Nil)
    /\ CallFrame

\* --- Hmset: HMSET, then EXPIRE when HMSET succeeded and expire > 0
HmsetGoesOn_Never(err, expire) == FALSE
HmsetGoesOn_IgnoresErr(err, expire) == expire > 0
HmsetGoesOn(err, expire) == err = Nil /\ expire > 0

Hmset_HMSET(p, key, m, expire, net) ==
    /\ CanCall(p)
    /\ LET c == Cmd("HMSET", 0, <<>>, m)
           d == Do(p, key, c, net)
           on == HmsetGoesOn(d.err, expire)
       IN  /\ store' = [store EXCEPT ![key] = d.entry]
           /\ lastWrite' = IF d.err = Nil
                           THEN [lastWrite EXCEPT ![key] =
                                   Write("Hmset", c.name, p, NilVal, m, expire, TRUE, ~on)]
                           ELSE lastWrite
           /\ IF on
              THEN /\ arg' = [arg EXCEPT ![p] =
                                [Arg("Hmset", CfgA, key, NilVal, expire, "any", 2)
                                   EXCEPT !.err = d.err, !.cmds = <<Called(c, d)>>]]
                   /\ pc' = [pc EXCEPT ![p] = "hmset_expire"]
                   /\ ret' = NoRet
              ELSE /\ ret' = Ret("Hmset", d.err, 0, NilVal, NoWrite,
                                 <<Called(c, d)>>, Nil, Nil)
                   /\ UNCHANGED <<pc, arg>>
    /\ UNCHANGED <<h, conn, once, redisInstance, handles, pools, watchers, proc, hist>>

Hmset_EXPIRE(p, net) ==
    /\ proc = "running" /\ ret = NoRet /\ pc[p] = "hmset_expire"
    /\ LET key == arg[p].key
           c == Cmd("EXPIRE", arg[p].expire, <<>>, EmptyMap)
           d == Do(p, key, c, net)
           w == lastWrite[key]
           mine == w.op = "Hmset" /\ w.cmd = "HMSET" /\ w.by = p /\ ~w.returned /\ w.whole
       IN  /\ store' = [store EXCEPT ![key] = d.entry]
           /\ lastWrite' =
                IF d.err = Nil /\ d.reply.n = 1
                THEN [lastWrite EXCEPT ![key] =
                        Write("Hmset", c.name, p, NilVal, IF mine THEN w.m ELSE EmptyMap,
                              arg[p].expire, mine, TRUE)]
                ELSE lastWrite
           /\ ret' = Ret("Hmset", d.err, 0, NilVal, NoWrite,
                         Append(arg[p].cmds, Called(c, d)), Nil, Nil)
    /\ pc' = [pc EXCEPT ![p] = "idle"]
    /\ arg' = [arg EXCEPT ![p] = NoArg]
    /\ UNCHANGED <<h, conn, once, redisInstance, handles, pools, watchers, proc, hist>>

\* --- Hmget: the error Hmget returns: the ScanStruct error lives in the
\* scope of the if statement and the function returns the outer one
HmgetErr_ReturnsScanErr(fetchErr, scanErr) == IF fetchErr # Nil THEN fetchErr ELSE scanErr
HmgetErr(fetchErr, scanErr) == IF fetchErr # Nil THEN fetchErr ELSE Nil

\* Hmget(key, &out) with out a zero struct whose fields have type kind
Hmget(p, key, kind, net) ==
    /\ CanCall(p)
    /\ LET c == Cmd("HGETALL", 0, <<>>, EmptyMap)
           d == Do(p, key, c, net)
           g == RedisValues(d.reply, d.err)
           u == IF g.err # Nil THEN [out |-> ZeroStruct(kind), err |-> Nil]
                ELSE ScanStruct(g.v, kind, ZeroStruct(kind))
       IN  ret' = [Ret("Hmget", HmgetErr(g.err, u.err), 0, u.out, lastWrite[key],
                       <<Called(c, d)>>, g.err, u.err) EXCEPT !.kind = kind]
    /\ UNCHANGED storeVars /\ CallFrame

\* --- the remote store's clock: one second passes
Tick ==
    /\ ret = NoRet
    /\ \E k \in Keys : store[k].exp > 0
    /\ store' = [k \in Keys |-> Age(store[k])]
    /\ lastWrite' = [k \in Keys |->
                       IF store[k].kind # "none" /\ Age(store[k]).kind = "none"
                       THEN Expired ELSE lastWrite[k]]
    /\ ret' = NoRet
    /\ UNCHANGED <<pc, arg, h, conn, once, redisInstance, handles, pools, watchers,
                   proc, hist>>

\* the caller has the result of its call
Taken ==
    /\ proc = "running" /\ ret # NoRet
    /\ ret' = NoRet
    /\ UNCHANGED <<pc, arg, h, conn, once, redisInstance, handles, pools, watchers,
                   proc, store, lastWrite, hist>>

\* values callers pass to Set: strings, ints, and other shapes (an int64,
\* which json.Marshal encodes, and a channel, which it cannot)
StrVals == {StrVal(t) : t \in SeqsUpTo(Alphabet, MaxLen)}
SetVals == StrVals \cup {IntVal(n) : n \in 0..MaxInt}
                   \cup {Int64Val(n) : n \in 0..MaxInt} \cup {ChanVal}
Expires == 0..MaxTtl
OutKinds == {"string", "int", "any"}
StructKinds == {"string", "int"}

\* A wrapper that issues one command is one step, the same step whichever
\* caller makes it (they share the handle): one idle caller stands for all.
\* Hmset spans two steps, so each caller makes its own.
OneCaller == IF \E p \in Callers : CanCall(p)
             THEN {CHOOSE p \in Callers : CanCall(p)} ELSE {}

StoreNext ==
    \/ \E p \in OneCaller, k \in Keys, net \in Nets : GetString(p, k, net)
    \/ \E p \in OneCaller, k \in Keys, net \in Nets : GetInt(p, k, net)
    \/ \E p \in OneCaller, k \in Keys, kind \in OutKinds, net \in Nets : Get(p, k, kind, net)
    \/ \E p \in OneCaller, k \in Keys, v \in SetVals, e \in Expires, net \in Nets :
          Set(p, k, v, e, net)
    \/ \E p \in OneCaller, k \in Keys, net \in Nets : Exists(p, k, net)
    \/ \E p \in OneCaller, k \in Keys, net \in Nets : Del(p, k, net)
    \/ \E p \in OneCaller, k \in Keys, net \in Nets : Ttl(p, k, net)
    \/ \E p \in OneCaller, k \in Keys, e \in Expires, net \in Nets : Expire(p, k, e, net)
    \/ \E p \in OneCaller, k \in Keys, net \in Nets : Incr(p, k, net)
    \/ \E p \in Callers, k \in Keys, m \in Maps, e \in Expires, net \in Nets :
          Hmset_HMSET(p, k, m, e, net)
    \/ \E p \in Callers, net \in Nets : Hmset_EXPIRE(p, net)
    \/ \E p \in OneCaller, k \in Keys, kind \in StructKinds, net \in Nets :
          Hmget(p, k, kind, net)
    \/ Taken
    \/ Tick
    \/ Signal("SIGTERM")
    \/ \E i \in WatcherIds : Watcher_Recv(i)
    \/ \E i \in WatcherIds : Watcher_Close(i)
    \/ \E i \in WatcherIds : Watcher_Exit(i)

StoreSpec == StoreInit /\ [][StoreNext]_vars


\* ------------------------------------------------------------- wrapper claims
\* C3: a Get into a string, of a key whose last write is a Set of the text
\* s, leaves s in the output.
C3_SetGetRoundTrip ==
    (ret.op = "Get" /\ ret.err = Nil /\ ret.kind = "string"
       /\ ret.saw.op = "Set" /\ ret.saw.val.t = "string")
    => ret.out = ret.saw.val

\* C4: when a command of a call fails, the call returns that error, and
\* makes no further r.Do call.
C4_ErrorsSurface ==
    \A i \in 1..Len(ret.cmds) :
        ret.cmds[i].err # Nil => (ret.err = ret.cmds[i].err /\ i = Len(ret.cmds))

\* C5: Get and Hmget return the error of the fetch when it fails, and nil
\* when the fetch succeeds and the decoding of the reply fails.
C5_DecodeErrorDropped ==
    ret.op \in {"Get", "Hmget"} =>
        /\ ret.fetchErr # Nil => ret.err = ret.fetchErr
        /\ (ret.fetchErr = Nil /\ ret.decErr # Nil) => ret.err = Nil

\* Get has fetched a text that is no JSON and returned nil
C5_Witness ==
    /\ ret.op = "Get" /\ ret.fetchErr = Nil /\ ret.decErr # Nil /\ ret.err = Nil
    /\ ret.saw.op = "Set" /\ ret.out = Zero(ret.kind)

\* C6: a Set call makes one r.Do call, of SETEX, whatever the shape of the
\* value; a key whose last write is a Set never reports a TTL of -1: the TTL
\* is positive and at most the expiry given to that Set.
C6_SetAlwaysExpires ==
    /\ ret.op = "Set" => (Len(ret.cmds) = 1 /\ ret.cmds[1].name = "SETEX")
    /\ (ret.op = "Ttl" /\ ret.err = Nil /\ ret.saw.op = "Set")
         => (ret.val # -1 /\ ret.val > 0 /\ ret.val <= ret.saw.expire)
    /\ \A k \in Keys : lastWrite[k].op = "Set" =>
         (store[k].kind = "string" /\ store[k].exp > 0 /\ store[k].exp <= lastWrite[k].expire)

\* Ttl of a key written by a Set of a value of another shape, one second on
C6_Witness ==
    /\ ret.op = "Ttl" /\ ret.err = Nil /\ ret.saw.op = "Set"
    /\ ret.saw.val.t = "int64" /\ ret.saw.expire = 2 /\ ret.val = 1

\* C7: once Hmset(key, v, ttl) with ttl > 0 has returned nil, and while
\* nothing else has changed the key, Hmget into a struct of string fields
\* fills the fields of v and Ttl is positive.
HmsetDone(w) == w.op = "Hmset" /\ w.whole /\ w.returned /\ w.expire > 0
C7_HmsetThenHmget ==
    /\ (ret.op = "Hmget" /\ ret.err = Nil /\ ret.kind = "string" /\ HmsetDone(ret.saw))
         => \A f \in DOMAIN ret.saw.m : ret.out[f] = StrVal(ret.saw.m[f])
    /\ (ret.op = "Ttl" /\ ret.err = Nil /\ HmsetDone(ret.saw)) => ret.val > 0
    /\ \A k \in Keys : HmsetDone(lastWrite[k]) =>
         (store[k].kind = "hash" /\ store[k].exp > 0)

\* Hmget after Hmset(key, {x: "1", y: "a"}, ttl) by a caller
C7_Witness ==
    /\ ret.op = "Hmget" /\ ret.err = Nil /\ ret.kind = "string" /\ HmsetDone(ret.saw)
    /\ DOMAIN ret.saw.m = Fields
    /\ ret.out["x"] = StrVal(<<"1">>) /\ ret.out["y"] = StrVal(<<"a">>)
    /\ \A k \in Keys : store[k].exp > 0

\* C10: Hmset calls EXPIRE only after its HMSET, only when that succeeded and
\* only with expire > 0.
C10_ExpireAfterHmset ==
    /\ \A p \in Callers : pc[p] = "hmset_expire" =>
         /\ arg[p].expire > 0
         /\ Len(arg[p].cmds) = 1
         /\ arg[p].cmds[1].name = "HMSET" /\ arg[p].cmds[1].err = Nil
    /\ ret.op = "Hmset" =>
         /\ Len(ret.cmds) \in {1, 2} /\ ret.cmds[1].name = "HMSET"
         /\ Len(ret.cmds) = 2 => (ret.cmds[1].err = Nil /\ ret.cmds[2].name = "EXPIRE")

\* the watcher has exited the process between the two commands of an Hmset:
\* the hash holds the new fields and has no expiry
C10_Witness ==
    /\ proc = "exited"
    /\ \E p \in Callers :
         /\ pc[p] = "hmset_expire"
         /\ LET w == lastWrite[arg[p].key]
                e == store[arg[p].key]
            IN  /\ w.op = "Hmset" /\ w.cmd = "HMSET" /\ w.by = p /\ ~w.returned
                /\ e.kind = "hash" /\ e.exp = -1
                /\ DOMAIN w.m = Fields /\ \A f \in Fields : e.hash[f] = w.m[f]

====
